---- MODULE Spec2Model ----
(***************************************************************************)
(* Machine lifecycle orchestration of flyctl:                              *)
(*   - internal/machine/update.go : RollingUpdate and Update               *)
(*   - internal/command/run       : runRun, the ephemeral runner machine,  *)
(*                                  selectCommand and quote                *)
(* One invocation of the CLI runs one command, so each command has its own *)
(* specification: SpecRolling, SpecRun and SpecEncode.                     *)
(***************************************************************************)
EXTENDS Integers, Sequences, FiniteSets, TLC

VARIABLES
    pc,         \* position of the running command
    trace,      \* every platform call, Update entry/return, print and warning, in order
    result,     \* the error the command returned (Nil for success), NotReturned before
    app,        \* the app's machines on the platform (RollingUpdate)
    leases,     \* platform lease table: machine ID -> nonce of the lease held on it
    machines,   \* RollingUpdate: machines returned by AcquireLeases
    idx,        \* RollingUpdate: position of `for _, m := range machines` (line 33)
    deferred,   \* RollingUpdate: stack of deferred ReleaseLease calls
    flagSelect, \* run: -s/--select
    flagMachine,\* run: -m/--machine ("" when not specified)
    args,       \* run: flag.Args(ctx), each argument a sequence of characters
    aliases,    \* run: appConfig.Commands, alias name -> command
    command,    \* run: the string selectCommand returned
    machine,    \* run: the machine selectMachine returned
    ephemeral,  \* run: the flag selectMachine returned
    listed,     \* run: promptForMachine's filtered machine list
    launched,   \* run: the machine flapsClient.Launch returned
    waitErr,    \* run: makeEphemeralRunnerMachine's err after the failed start wait
    cmdArgs,    \* run: selectCommand's cmdArgs, the base command and the quoted arguments
    primary,    \* run: the value the body of runRun returned, before the deferred teardown
    cancelled   \* the caller's context (ctx) is cancelled or past its deadline

rollingVars == <<app, leases, machines, idx, deferred>>
cmdVars == <<args, aliases, command, cmdArgs>>
runVars == <<flagSelect, flagMachine, machine, ephemeral, listed, launched, waitErr, primary>>
vars == <<pc, trace, result, cancelled, rollingVars, cmdVars, runVars>>

-----------------------------------------------------------------------------
(* Bounds of the model *)

MaxMachines == 3
MaxFleet == 2
MaxEvents == 2
MaxStrLen == 2
MaxArgs == 2

-----------------------------------------------------------------------------
(* Values shared by the commands *)

\* A Go error: its message and, for a *flaps.FlapsError in its chain, the
\* HTTP status of the response (0 when there is none).
Err(msg, status) == [msg |-> msg, status |-> status]

\* The nil error.
Nil == Err("<nil>", 0)

\* The value of result and primary while the command has not returned.
NotReturned == Err("<not returned>", 0)

\* The error of a call made with a cancelled context.
CtxCanceled == Err("context canceled", 0)

\* What a call made with the caller's context can return, errs being the
\* errors it can fail with: once the context is cancelled, it fails.
Outcomes(errs) == IF cancelled THEN {CtxCanceled} ELSE errs \cup {Nil}
Failures(errs) == IF cancelled THEN {CtxCanceled} ELSE errs

\* The caller cancels the context of the running command.
Cancel ==
    /\ ~cancelled
    /\ pc # "done"
    /\ cancelled' = TRUE
    /\ UNCHANGED <<pc, trace, result, app, leases, machines, idx, deferred, flagSelect,
                   flagMachine, args, aliases, command, machine, ephemeral, listed,
                   launched, waitErr, cmdArgs, primary>>

\* fmt.Errorf(prefix + "%w", e): the message is prefixed, the chain is kept.
Wrap(prefix, e) == Err(prefix \o e.msg, e.status)

\* One entry of the trace.
Call(op, id, nonce, ctx, arg, err) ==
    [op |-> op, id |-> id, nonce |-> nonce, ctx |-> ctx, arg |-> arg, err |-> err]

\* The entries of a trace whose op is in ops, in order.
RECURSIVE SelectOps(_, _)
SelectOps(s, ops) ==
    IF s = <<>> THEN <<>>
    ELSE IF Head(s).op \in ops THEN <<Head(s)>> \o SelectOps(Tail(s), ops)
    ELSE SelectOps(Tail(s), ops)

\* An api.Machine as the run command reads it; NoMachine is the nil machine.
Machine(id, state, release, events) ==
    [ID |-> id, State |-> state, ReleaseCommand |-> release, Events |-> events]
NoMachine == Machine("none", "", FALSE, <<>>)

MachineID(i) == "m" \o ToString(i)
NonceOf(id) == "nonce-" \o id

-----------------------------------------------------------------------------
(* internal/machine/update.go *)

\* Seconds of time.Minute*5, the ceiling of WaitForStartOrStop in Update.
WaitCeiling == 300

\* Errors the platform and the collaborators can answer with.
LeaseErrors == {Err("lease conflict", 409), Err("machine not found", 404)}
PushErrors == {Err("lease conflict", 409)}
WaitErrors == {Err("timeout reached waiting for machine", 408)}
CheckErrors == {Err("health checks failed", 0)}

\* The machines an app can have: IDs m1..mn, each on a schedule or not.
Schedules == {"", "hourly"}
Apps ==
    UNION {[1..n -> [ID : {MachineID(i) : i \in 1..n}, Schedule : Schedules]] : n \in 0..MaxMachines}
AppsInOrder == {a \in Apps : \A i \in DOMAIN a : a[i].ID = MachineID(i)}

\* The idle values of the variables of the run command.
RunIdle ==
    /\ flagSelect = FALSE
    /\ flagMachine = ""
    /\ machine = NoMachine
    /\ ephemeral = FALSE
    /\ listed = <<>>
    /\ launched = NoMachine
    /\ waitErr = Nil
    /\ primary = NotReturned

\* The idle values of the variables of the rolling update.
RollingIdle ==
    /\ app = <<>>
    /\ leases = [id \in {} |-> ""]
    /\ machines = <<>>
    /\ idx = 0
    /\ deferred = <<>>

CmdIdle ==
    /\ args = <<>>
    /\ aliases = <<>>
    /\ command = <<>>
    /\ cmdArgs = <<>>

InitRolling ==
    /\ cancelled = FALSE
    /\ pc = "RollingUpdate"
    /\ trace = <<>>
    /\ result = NotReturned
    /\ app \in AppsInOrder
    /\ leases = [id \in {} |-> ""]
    /\ machines = <<>>
    /\ idx = 0
    /\ deferred = <<>>
    /\ RunIdle
    /\ CmdIdle

\* AfterAcquireLeases going on to the updates whatever AcquireLeases returned.
AfterAcquireLeasesIgnoringError(err) == "defer"

\* RollingUpdate, lines 19-22: where it goes once AcquireLeases returned err,
\* to its end with err as the result or on to the deferred releases.
AfterAcquireLeases(err) == IF err # Nil THEN "done" ELSE "defer"

\* AcquireLeases succeeds: a lease on every machine of the app, each machine
\* returned with the nonce of its lease.
AcquireLeasesOK ==
    /\ UNCHANGED cancelled
    /\ pc = "RollingUpdate"
    /\ ~cancelled \/ app = <<>>
    /\ machines' = [i \in DOMAIN app |->
                      [ID |-> app[i].ID, LeaseNonce |-> NonceOf(app[i].ID),
                       Schedule |-> app[i].Schedule]]
    /\ leases' = [id \in {app[i].ID : i \in DOMAIN app} |-> NonceOf(id)]
    /\ trace' = trace \o [i \in DOMAIN app |->
                      Call("AcquireLease", app[i].ID, NonceOf(app[i].ID), "caller", "", Nil)]
    /\ pc' = AfterAcquireLeases(Nil)
    /\ UNCHANGED <<result, app, idx, deferred, cmdVars, runVars>>

\* AcquireLeases fails on machine k: the leases taken before it are given
\* back and the error is returned by RollingUpdate (lines 19-22).
AcquireLeasesFail ==
    /\ UNCHANGED cancelled
    /\ pc = "RollingUpdate"
    /\ \E k \in DOMAIN app, e \in Failures(LeaseErrors) :
          /\ trace' = trace
                \o [i \in 1..(k-1) |->
                      Call("AcquireLease", app[i].ID, NonceOf(app[i].ID), "caller", "", Nil)]
                \o <<Call("AcquireLease", app[k].ID, "", "caller", "", e)>>
                \o [i \in 1..(k-1) |->
                      Call("ReleaseLease", app[i].ID, NonceOf(app[i].ID), "caller", "", Nil)]
          /\ pc' = AfterAcquireLeases(e)
          /\ result' = IF AfterAcquireLeases(e) = "done" THEN e ELSE result
    /\ UNCHANGED <<app, leases, machines, idx, deferred, cmdVars, runVars>>

\* DeferredReleases with every deferred call reading the loop variable after
\* the loop ended: each releases the last machine.
DeferredReleasesOfLastMachine(ms) ==
    [i \in DOMAIN ms |->
        Call("ReleaseLease", ms[Len(ms)].ID, ms[Len(ms)].LeaseNonce, "caller", "", Nil)]

\* Lines 24-26: one deferred ReleaseLease per machine, pushed in list order.
DeferredReleases(ms) ==
    [i \in DOMAIN ms |-> Call("ReleaseLease", ms[i].ID, ms[i].LeaseNonce, "caller", "", Nil)]

DeferReleases ==
    /\ UNCHANGED cancelled
    /\ pc = "defer"
    /\ deferred' = DeferredReleases(machines)
    /\ idx' = 1
    /\ pc' = "loop"
    /\ UNCHANGED <<trace, result, app, leases, machines, cmdVars, runVars>>

\* UpdateReturn with the success message printed whatever Update returns.
UpdateReturnAlwaysSuccessful(m, e) ==
    <<Call("print", m.ID, "", "", "updated successfully", Nil),
      Call("Update.return", m.ID, "", "", "", e)>>

\* The entries Update leaves in the trace when it returns e for machine m.
UpdateReturn(m, e) ==
    (IF e = Nil THEN <<Call("print", m.ID, "", "", "updated successfully", Nil)>> ELSE <<>>)
    \o <<Call("Update.return", m.ID, "", "", "", e)>>

\* NextMachine with the loop left at the first failed Update.
NextMachineUnlessFailed(i, e) == IF e = Nil THEN i + 1 ELSE Len(machines) + 1

\* The loop of lines 33-35 after Update returned e for machines[i]: line 34
\* drops e, and the loop goes on with the next machine.
NextMachine(i, e) == i + 1

\* Update, lines 47-52: the config push with the machine's lease nonce.
UpdatePush ==
    /\ UNCHANGED cancelled
    /\ pc = "loop"
    /\ idx \in DOMAIN machines
    /\ LET m == machines[idx]
           enter == <<Call("Update.enter", m.ID, "", "", "", Nil),
                      Call("print", m.ID, "", "", "Updating machine", Nil)>>
       IN \E e \in Outcomes(PushErrors) :
            IF e = Nil
            THEN /\ trace' = trace \o enter
                       \o <<Call("flaps.Update", m.ID, m.LeaseNonce, "caller", "", Nil)>>
                 /\ pc' = "wait"
                 /\ idx' = idx
            ELSE /\ trace' = trace \o enter
                       \o <<Call("flaps.Update", m.ID, m.LeaseNonce, "caller", "", e)>>
                       \o UpdateReturn(m, Wrap("could not stop machine " \o m.ID \o ": ", e))
                 /\ pc' = "loop"
                 /\ idx' = NextMachine(idx, Wrap("could not stop machine " \o m.ID \o ": ", e))
    /\ UNCHANGED <<result, app, leases, machines, deferred, cmdVars, runVars>>

\* WaitForAction with the two states exchanged.
WaitForActionInverted(m) == IF m.Schedule # "" THEN "start" ELSE "stop"

\* Update, lines 54-57.
WaitForAction(m) == IF m.Schedule # "" THEN "stop" ELSE "start"

\* Update, lines 59-61.
UpdateWait ==
    /\ UNCHANGED cancelled
    /\ pc = "wait"
    /\ LET m == machines[idx]
       IN \E e \in Outcomes(WaitErrors) :
            /\ trace' = trace
                  \o <<Call("WaitForStartOrStop", m.ID, "", "caller",
                            <<WaitForAction(m), WaitCeiling>>, e)>>
                  \o (IF e = Nil THEN <<>> ELSE UpdateReturn(m, e))
            /\ pc' = IF e = Nil THEN "checks" ELSE "loop"
            /\ idx' = IF e = Nil THEN idx ELSE NextMachine(idx, e)
    /\ UNCHANGED <<result, app, leases, machines, deferred, cmdVars, runVars>>

\* UpdateChecks with the previous config pushed back when the checks fail.
UpdateChecksWithRollback ==
    /\ UNCHANGED cancelled
    /\ pc = "checks"
    /\ LET m == machines[idx]
       IN \E e \in Outcomes(CheckErrors) :
            LET r == IF e = Nil THEN Nil
                     ELSE Wrap("failed to wait for health checks to pass: ", e)
            IN /\ trace' = trace
                     \o <<Call("MachinesChecks", m.ID, "", "caller", "", e)>>
                     \o (IF e = Nil THEN <<>>
                         ELSE <<Call("flaps.Update", m.ID, m.LeaseNonce, "caller", "rollback", Nil)>>)
                     \o UpdateReturn(m, r)
               /\ idx' = NextMachine(idx, r)
    /\ pc' = "loop"
    /\ UNCHANGED <<result, app, leases, machines, deferred, cmdVars, runVars>>

\* Update, lines 63-69.
UpdateChecks ==
    /\ UNCHANGED cancelled
    /\ pc = "checks"
    /\ LET m == machines[idx]
       IN \E e \in Outcomes(CheckErrors) :
            LET r == IF e = Nil THEN Nil
                     ELSE Wrap("failed to wait for health checks to pass: ", e)
            IN /\ trace' = trace
                     \o <<Call("MachinesChecks", m.ID, "", "caller", "", e)>>
                     \o UpdateReturn(m, r)
               /\ idx' = NextMachine(idx, r)
    /\ pc' = "loop"
    /\ UNCHANGED <<result, app, leases, machines, deferred, cmdVars, runVars>>

\* Line 37: once the loop is over RollingUpdate returns nil.
RollingReturn ==
    /\ UNCHANGED cancelled
    /\ pc = "loop"
    /\ idx \notin DOMAIN machines
    /\ result' = Nil
    /\ pc' = "deferred"
    /\ UNCHANGED <<trace, app, leases, machines, idx, deferred, cmdVars, runVars>>

\* The deferred calls run last in, first out; the stack that is left after one ran.
PopDeferred(d) == SubSeq(d, 1, Len(d) - 1)

RunDeferred ==
    /\ UNCHANGED cancelled
    /\ pc = "deferred"
    /\ deferred # <<>>
    /\ LET c == [deferred[Len(deferred)] EXCEPT !.err = IF cancelled THEN CtxCanceled ELSE Nil]
       IN /\ trace' = trace \o <<c>>
          /\ leases' = IF c.err = Nil
                       THEN [id \in DOMAIN leases \ {c.id} |-> leases[id]]
                       ELSE leases
    /\ deferred' = PopDeferred(deferred)
    /\ UNCHANGED <<pc, result, app, machines, idx, cmdVars, runVars>>

RollingDone ==
    /\ UNCHANGED cancelled
    /\ pc = "deferred"
    /\ deferred = <<>>
    /\ pc' = "done"
    /\ UNCHANGED <<trace, result, rollingVars, cmdVars, runVars>>

NextRolling ==
    \/ Cancel
    \/ AcquireLeasesOK
    \/ AcquireLeasesFail
    \/ DeferReleases
    \/ UpdatePush
    \/ UpdateWait
    \/ UpdateChecks
    \/ RollingReturn
    \/ RunDeferred
    \/ RollingDone

SpecRolling == InitRolling /\ [][NextRolling]_vars

-----------------------------------------------------------------------------
(* internal/command/run: selectCommand and quote.  A Go string is the      *)
(* sequence of its characters.                                             *)

\* strings.Index(s, c): the 0-based position of the first c in s, -1 without one.
Index(s, c) ==
    IF \E i \in DOMAIN s : s[i] = c
    THEN (CHOOSE i \in DOMAIN s : s[i] = c /\ \A j \in 1..(i-1) : s[j] # c) - 1
    ELSE -1

\* quote writing a pair of single quotes for an empty run as well.
RECURSIVE quoteEmptyRuns(_)
quoteEmptyRuns(s) ==
    LET i == Index(s, "'")
    IN  IF i = -1
        THEN <<"'">> \o s \o <<"'">>
        ELSE <<"'">> \o SubSeq(s, 1, i) \o <<"'">> \o <<"\\", "'">>
                 \o quoteEmptyRuns(SubSeq(s, i + 2, Len(s)))

\* quote, lines 190-212: one round of the loop per recursion, the builder
\* being what the rounds wrote so far.
RECURSIVE quote(_)
quote(s) ==
    LET i == Index(s, "'")
    IN  IF i = -1
        THEN (IF s # <<>> THEN <<"'">> \o s \o <<"'">> ELSE <<>>)
        ELSE IF i = 0
        THEN <<"\\", "'">> \o quote(SubSeq(s, 2, Len(s)))
        ELSE <<"'">> \o SubSeq(s, 1, i) \o <<"'">> \o <<"\\", "'">>
                 \o quote(SubSeq(s, i + 2, Len(s)))

\* strings.Join(elems, sep).
RECURSIVE Join(_, _)
Join(elems, sep) ==
    IF elems = <<>> THEN <<>>
    ELSE IF Len(elems) = 1 THEN elems[1]
    ELSE elems[1] \o sep \o Join(Tail(elems), sep)

\* BaseCommand with the alias's command quoted like an argument.
BaseCommandQuoted(ourArgs, commands) ==
    LET specified == ourArgs[1]
    IN  IF specified \in DOMAIN commands THEN quote(commands[specified]) ELSE quote(specified)

\* selectCommand, lines 174-182: the base command.
BaseCommand(ourArgs, commands) ==
    LET specified == ourArgs[1]
    IN  IF specified \in DOMAIN commands THEN commands[specified] ELSE quote(specified)

\* selectCommand, lines 184-186: cmdArgs.
CmdArgs(ourArgs, commands) ==
    <<BaseCommand(ourArgs, commands)>> \o [i \in 1..(Len(ourArgs) - 1) |-> quote(ourArgs[i + 1])]

\* selectCommand, line 187.
selectCommand(ourArgs, commands) == Join(CmdArgs(ourArgs, commands), <<" ">>)

\* The inputs: every string of at most MaxStrLen characters over Chars and
\* the strings of TestQuoting; every list of 1..MaxArgs such arguments.
Chars == {"a", " ", "'"}
Strings == UNION {[1..n -> Chars] : n \in 0..MaxStrLen}
TestStrings == {
    <<"b", "a", "s", "h">>,
    <<"b", "a", "s", "h", " ", "-", "x">>,
    <<"'", "b", "a", "s", "h", "'">>,
    <<"\"", "b", "a", "s", "h", "\"">>,
    <<"'", "m", "u", "l", "t", "i", "p", "l", "e", "'", " ", "'", "s", "i", "n", "g", "l", "e", " ", "q", "u", "o", "t", "e", "s", "'">>}
ArgLists == UNION {[1..n -> Strings] : n \in 1..MaxArgs} \cup {<<t>> : t \in TestStrings}

ExampleArgs == <<<<"d", "e", "p", "l", "o", "y">>, <<"e", "x", "t", "r", "a", " ", "a", "r", "g">>>>
ExampleAliases == [n \in {<<"d", "e", "p", "l", "o", "y">>} |-> <<".", "/", "d", "e", "p", "l", "o", "y", ".", "s", "h", " ", "-", "-", "p", "r", "o", "d">>]
NoAliases == [n \in {} |-> <<>>]
AliasTables == {NoAliases, ExampleAliases, [n \in {<<"a">>} |-> <<"a", " ", "'">>]}

InitEncode ==
    /\ cancelled = FALSE
    /\ pc = "selectCommand"
    /\ trace = <<>>
    /\ result = NotReturned
    /\ RollingIdle
    /\ RunIdle
    /\ args \in ArgLists \cup {ExampleArgs}
    /\ aliases \in AliasTables
    /\ command = <<>>
    /\ cmdArgs = <<>>

SelectCommand ==
    /\ UNCHANGED cancelled
    /\ pc = "selectCommand"
    /\ cmdArgs' = CmdArgs(args, aliases)
    /\ command' = selectCommand(args, aliases)
    /\ pc' = "done"
    /\ UNCHANGED <<trace, result, rollingVars, args, aliases, runVars>>

NextEncode == SelectCommand

SpecEncode == InitEncode /\ [][NextEncode]_vars

-----------------------------------------------------------------------------
(* internal/command/run: runRun and the ephemeral runner machine *)

\* Seconds of stopTimeout (line 127) and of waitTimeout (line 308).
StopTimeout == 5
WaitTimeout == 15

MachineStates ==
    {"created", "starting", "started", "stopping", "stopped", "destroying", "destroyed"}

\* The event log of a machine: the type of each event and its request, which
\* is nil, or has no exit code, or has one.
ExitCodes == {0, 137}
Requests ==
    {[kind |-> "nil", code |-> -1], [kind |-> "no exit code", code |-> -1]}
    \cup {[kind |-> "exit code", code |-> c] : c \in ExitCodes}
Events == [Type : {"exit", "start"}, Request : Requests]
EventLogs == UNION {[1..n -> Events] : n \in 0..MaxEvents}

\* The ID of the machine flapsClient.Launch creates: none of the app's machines.
EphemeralID == "ephemeral"

\* What flapsClient.ListActive can answer: machines m1..mn, each in a state
\* of an active machine.
ActiveStates == {"created", "started", "stopped"}
Fleets ==
    UNION {{f \in [1..n -> [ID : {MachineID(i) : i \in 1..n}, State : ActiveStates,
                            ReleaseCommand : BOOLEAN, Events : {<<>>}]] :
               \A i \in 1..n : f[i].ID = MachineID(i)} : n \in 0..MaxFleet}

\* Errors of the collaborators.
GetAppErrors == {Err("app not found", 404)}
PlatformVersions == {"machines", "nomad"}
FlapsNewErrors == {Err("no tunnel", 0)}
RemoteConfigErrors == {Err("app config not found", 404)}
ValidateErrors == {Err("invalid app configuration", 0)}
GetErrors == {Err("machine not found", 404)}
ListErrors == {Err("internal server error", 500)}
PromptErrors == {Err("prompt: non interactive", 0)}
ReleaseErrors == {Err("failed to get current release", 0)}
LaunchErrors == {Err("insufficient resources", 422)}
StartWaitErrors == {
    Err("timeout reached waiting for machine to start", 408),
    Err("machine not found", 404),
    Err("context deadline exceeded", 0)}
StopErrors == {Err("machine still active", 409)}
DestroyWaitErrors == {Err("timeout reached waiting for machine to be destroyed", 408)}
AgentErrors == {Err("can't establish agent", 0)}
ConnectErrors == {Err("ssh: connection refused", 0)}
ConsoleErrors == {Err("exit status 1", 0)}

ManualDestroyWarning == "You may need to destroy it manually (fly machine destroy)."
Warn(msg) == Call("warn", "", "", "", msg, Nil)
Fprintf(id, msg) == Call("print", id, "", "", msg, Nil)

RunArgLists == {ExampleArgs, <<<<"a">>, <<"a", "'">>>>}

InitRun ==
    /\ cancelled = FALSE
    /\ pc = "runRun"
    /\ trace = <<>>
    /\ result = NotReturned
    /\ RollingIdle
    /\ flagSelect \in BOOLEAN
    /\ flagMachine \in {""} \cup {MachineID(i) : i \in 1..MaxFleet}
    /\ args \in RunArgLists
    /\ aliases = ExampleAliases
    /\ command = <<>>
    /\ cmdArgs = <<>>
    /\ machine = NoMachine
    /\ ephemeral = FALSE
    /\ listed = <<>>
    /\ launched = NoMachine
    /\ waitErr = Nil
    /\ primary = NotReturned

\* selectMachine returned an error: runRun returns it (lines 120-123), no
\* teardown being deferred yet.
SelectMachineFails(e, entries) ==
    /\ trace' = trace \o entries
    /\ result' = e
    /\ pc' = "done"
    /\ UNCHANGED <<rollingVars, cmdVars, runVars>>

\* runRun returns e before selectMachine is called, the entries written.
SetupFails(e, entries) ==
    /\ trace' = trace \o entries
    /\ result' = e
    /\ pc' = "done"
    /\ UNCHANGED <<rollingVars, cmdVars, runVars>>

\* runRun goes on to the next step of its setup, the entries written.
SetupGoesOn(next, entries) ==
    /\ trace' = trace \o entries
    /\ pc' = next
    /\ UNCHANGED <<result, rollingVars, cmdVars, runVars>>

\* runRun, lines 90-97: the app, and its platform version.
GetAppCompact ==
    /\ UNCHANGED cancelled
    /\ pc = "runRun"
    /\ \/ \E e \in Failures(GetAppErrors) :
            SetupFails(Wrap("failed to get app: ", e),
                       <<Call("GetAppCompact", "", "", "caller", "", e)>>)
       \/ \E v \in (IF cancelled THEN {} ELSE PlatformVersions) :
            LET call == <<Call("GetAppCompact", "", "", "caller", v, Nil)>>
            IN  IF v # "machines"
                THEN SetupFails(Err("run is only supported for the machines platform", 0), call)
                ELSE SetupGoesOn("flaps.New", call)

\* runRun, lines 99-103: the flaps client.
FlapsNew ==
    /\ UNCHANGED cancelled
    /\ pc = "flaps.New"
    /\ \E e \in Outcomes(FlapsNewErrors) :
         LET call == <<Call("flaps.New", "", "", "caller", "", e)>>
         IN  IF e # Nil
             THEN SetupFails(Wrap("failed to create flaps client: ", e), call)
             ELSE SetupGoesOn("appConfig", call)

\* runRun, lines 105-111: the app config, the one of the context or, without
\* one, the one fetched from the backend.
FromRemoteApp ==
    /\ UNCHANGED cancelled
    /\ pc = "appConfig"
    /\ \/ SetupGoesOn("validate", <<>>)
       \/ \E e \in Outcomes(RemoteConfigErrors) :
            LET call == <<Call("appconfig.FromRemoteApp", "", "", "caller", "", e)>>
            IN  IF e # Nil
                THEN SetupFails(Wrap("failed to fetch app config from backend: ", e), call)
                ELSE SetupGoesOn("validate", call)

\* runRun, lines 113-118: the validation of the app config and the encoded
\* command.
ValidateForMachinesPlatform ==
    /\ UNCHANGED cancelled
    /\ pc = "validate"
    /\ \E e \in Outcomes(ValidateErrors) :
         LET call == <<Call("ValidateForMachinesPlatform", "", "", "caller", "", e)>>
         IN  IF e # Nil
             THEN SetupFails(e, call \o <<Fprintf("", "extraInfo")>>)
             ELSE /\ trace' = trace \o call
                  /\ cmdArgs' = CmdArgs(args, aliases)
                  /\ command' = selectCommand(args, aliases)
                  /\ pc' = "selectMachine"
                  /\ UNCHANGED <<result, rollingVars, args, aliases, runVars>>

\* promptForMachine, lines 234-236.
Selectable(ms) ==
    SelectSeq(ms, LAMBDA m : m.State = "started" /\ ~m.ReleaseCommand)

\* promptForMachine, lines 225-239: the machines offered.
PromptList ==
    /\ UNCHANGED cancelled
    /\ pc = "selectMachine"
    /\ flagSelect
    /\ IF flagMachine # ""
       THEN SelectMachineFails(Err("-m/--machine can't be used with -s/--select", 0), <<>>)
       ELSE \/ \E e \in Failures(ListErrors) :
                 SelectMachineFails(e, <<Call("flaps.ListActive", "", "", "caller", "", e)>>)
            \/ \E f \in (IF cancelled THEN {} ELSE Fleets) :
                 LET call == <<Call("flaps.ListActive", "", "", "caller", f, Nil)>>
                 IN  IF Len(Selectable(f)) = 0
                     THEN SelectMachineFails(Err("no machines are available", 0), call)
                     ELSE /\ listed' = Selectable(f)
                          /\ trace' = trace \o call
                          /\ pc' = "prompt"
                          /\ UNCHANGED <<result, rollingVars, cmdVars, flagSelect, flagMachine,
                                         machine, ephemeral, launched, waitErr, primary>>

\* promptForMachine, lines 241-254: the options and the operator's choice.
PromptOptions(ms) == <<"create an ephemeral shared-cpu-1x machine">> \o [i \in DOMAIN ms |-> ms[i].ID]

PromptSelect ==
    /\ UNCHANGED cancelled
    /\ pc = "prompt"
    /\ \/ \E e \in Failures(PromptErrors) :
            SelectMachineFails(Wrap("failed to prompt for a machine: ", e),
                               <<Call("prompt.Select", "", "", "caller", PromptOptions(listed), e)>>)
       \/ \E index \in (IF cancelled THEN {} ELSE 0..(Len(PromptOptions(listed)) - 1)) :
            /\ trace' = trace
                  \o <<Call("prompt.Select", "", "", "caller", PromptOptions(listed), Nil)>>
            /\ IF index = 0
               THEN /\ pc' = "makeEphemeralRunnerMachine"
                    /\ UNCHANGED <<machine, ephemeral>>
               ELSE /\ machine' = listed[index]
                    /\ ephemeral' = FALSE
                    /\ pc' = "BringUpAgent"
            /\ UNCHANGED <<result, rollingVars, cmdVars, flagSelect, flagMachine, listed,
                           launched, waitErr, primary>>

\* getMachineByID answering that the machine is ephemeral.
getMachineByIDAsEphemeral(m) ==
    IF m.State # "started"
    THEN <<NoMachine, FALSE, Err("machine " \o m.ID \o " is not started", 0)>>
    ELSE IF m.ReleaseCommand
    THEN <<NoMachine, FALSE, Err("machine " \o m.ID \o " is a release command machine", 0)>>
    ELSE <<m, TRUE, Nil>>

\* getMachineByID, lines 264-271, on the machine flapsClient.Get returned:
\* the machine, the ephemeral flag and the error.
getMachineByID(m) ==
    IF m.State # "started"
    THEN <<NoMachine, FALSE, Err("machine " \o m.ID \o " is not started", 0)>>
    ELSE IF m.ReleaseCommand
    THEN <<NoMachine, FALSE, Err("machine " \o m.ID \o " is a release command machine", 0)>>
    ELSE <<m, FALSE, Nil>>

\* getMachineByID, lines 257-272.
GetMachineByID ==
    /\ UNCHANGED cancelled
    /\ pc = "selectMachine"
    /\ ~flagSelect
    /\ flagMachine # ""
    /\ \/ \E e \in Failures(GetErrors) :
            SelectMachineFails(e, <<Call("flaps.Get", flagMachine, "", "caller", NoMachine, e)>>)
       \/ \E st \in (IF cancelled THEN {} ELSE MachineStates), rc \in BOOLEAN :
            LET m == Machine(flagMachine, st, rc, <<>>)
                r == getMachineByID(m)
                call == <<Call("flaps.Get", flagMachine, "", "caller", m, Nil)>>
            IN  IF r[3] # Nil
                THEN SelectMachineFails(r[3], call)
                ELSE /\ machine' = r[1]
                     /\ ephemeral' = r[2]
                     /\ trace' = trace \o call
                     /\ pc' = "BringUpAgent"
                     /\ UNCHANGED <<result, rollingVars, cmdVars, flagSelect, flagMachine,
                                    listed, launched, waitErr, primary>>

\* makeEphemeralRunnerMachine, lines 282-288: the current release of the app.
GetAppCurrentReleaseMachines ==
    /\ UNCHANGED cancelled
    /\ \/ pc = "makeEphemeralRunnerMachine"
       \/ pc = "selectMachine" /\ ~flagSelect /\ flagMachine = ""
    /\ \/ \E e \in Failures(ReleaseErrors) :
            SelectMachineFails(e, <<Call("GetAppCurrentReleaseMachines", "", "", "caller", "", e)>>)
       \/ \E released \in (IF cancelled THEN {} ELSE BOOLEAN) :
            LET call == <<Call("GetAppCurrentReleaseMachines", "", "", "caller", released, Nil)>>
            IN  IF ~released
                THEN SelectMachineFails(
                        Err("can't create an ephemeral runner machine since the app has not yet been released", 0),
                        call)
                ELSE /\ trace' = trace \o call
                     /\ pc' = "flaps.Launch"
                     /\ UNCHANGED <<result, rollingVars, cmdVars, runVars>>

\* makeEphemeralRunnerMachine, lines 290-309: the machine configuration,
\* which cannot fail, and the launch.
MakeEphemeralLaunch ==
    /\ UNCHANGED cancelled
    /\ pc = "flaps.Launch"
    /\ \/ \E e \in Failures(LaunchErrors) :
            SelectMachineFails(Wrap("failed to launch ephemeral runner machine: ", e),
                               <<Call("flaps.Launch", "", "", "caller", "shared-cpu-1x", e)>>)
       \/ /\ ~cancelled
          /\ launched' = Machine(EphemeralID, "created", FALSE, <<>>)
          /\ trace' = trace
                \o <<Call("flaps.Launch", EphemeralID, "", "caller", "shared-cpu-1x", Nil),
                     Fprintf(EphemeralID, "Created an ephemeral machine"),
                     Fprintf(EphemeralID, "Waiting to start ...")>>
          /\ pc' = "waitStarted"
          /\ UNCHANGED <<result, rollingVars, cmdVars, flagSelect, flagMachine, machine,
                         ephemeral, listed, waitErr, primary>>

\* makeEphemeralRunnerMachine, line 319: the failed wait calls for a look at
\* the machine.
ChecksDestruction(e) == e.status = 404

\* makeEphemeralRunnerMachine, lines 308-327: the wait for `started`.
MakeEphemeralWait ==
    /\ UNCHANGED cancelled
    /\ pc = "waitStarted"
    /\ \E e \in Outcomes(StartWaitErrors) :
         LET call == Call("flaps.Wait", launched.ID, "", "caller", <<"started", WaitTimeout>>, e)
         IN  IF e = Nil
             THEN /\ machine' = launched
                  /\ ephemeral' = TRUE
                  /\ trace' = trace \o <<call, Fprintf(launched.ID, "done")>>
                  /\ pc' = "BringUpAgent"
                  /\ UNCHANGED <<result, waitErr>>
             ELSE IF ChecksDestruction(e)
             THEN /\ waitErr' = e
                  /\ trace' = trace \o <<call, Fprintf(launched.ID, "failed")>>
                  /\ pc' = "checkMachineDestruction"
                  /\ UNCHANGED <<result, machine, ephemeral>>
             ELSE /\ trace' = trace
                        \o <<call, Fprintf(launched.ID, "failed"),
                             Warn("You may need to destroy the machine manually (fly machine destroy).")>>
                  /\ result' = e
                  /\ pc' = "done"
                  /\ UNCHANGED <<waitErr, machine, ephemeral>>
    /\ UNCHANGED <<rollingVars, cmdVars, flagSelect, flagMachine, listed, launched, primary>>

\* checkMachineDestruction, lines 340-346: the first event of type "exit",
\* as its position in the log, 0 without one.
ExitEvent(events) ==
    IF \E i \in DOMAIN events : events[i].Type = "exit"
    THEN CHOOSE i \in DOMAIN events :
            events[i].Type = "exit" /\ \A j \in 1..(i-1) : events[j].Type # "exit"
    ELSE 0

\* checkMachineDestruction, lines 336-357, on the machine flapsClient.Get
\* returned: whether it is destroyed, and the error.
checkMachineDestruction(m, firstErr) ==
    IF m.State # "destroyed" /\ m.State # "destroying"
    THEN <<FALSE, firstErr>>
    ELSE LET i == ExitEvent(m.Events)
         IN  IF i = 0 \/ m.Events[i].Request.kind = "nil"
             THEN <<TRUE, Err("machine was destroyed unexpectedly", 0)>>
             ELSE IF m.Events[i].Request.kind # "exit code"
             THEN <<TRUE, Err("machine exited unexpectedly", 0)>>
             ELSE <<TRUE, Err("machine exited unexpectedly with code "
                                 \o ToString(m.Events[i].Request.code), 0)>>

\* makeEphemeralRunnerMachine, lines 320-326, with checkMachineDestruction,
\* lines 329-358.
CheckMachineDestruction ==
    /\ UNCHANGED cancelled
    /\ pc = "checkMachineDestruction"
    /\ \/ \E e \in Failures(GetErrors) :
            /\ trace' = trace
                  \o <<Call("flaps.Get", launched.ID, "", "caller", NoMachine, e),
                       Warn("You may need to destroy the machine manually (fly machine destroy).")>>
            /\ result' = Wrap("failed to check status of machine: ", e)
       \/ \E st \in (IF cancelled THEN {} ELSE MachineStates), ev \in EventLogs :
            LET m == Machine(launched.ID, st, FALSE, ev)
                r == checkMachineDestruction(m, waitErr)
            IN  /\ trace' = trace
                      \o <<Call("flaps.Get", launched.ID, "", "caller", m, Nil)>>
                      \o (IF r[1] THEN <<>>
                          ELSE <<Warn("You may need to destroy the machine manually (fly machine destroy).")>>)
                /\ result' = r[2]
    /\ pc' = "done"
    /\ UNCHANGED <<rollingVars, cmdVars, runVars>>

\* BodyReturns with the teardown not deferred: it runs only when the body
\* came to its end without an error.
BodyReturnsTeardownOnSuccess(e) ==
    /\ primary' = e
    /\ IF ephemeral /\ e = Nil
       THEN pc' = "teardown" /\ UNCHANGED result
       ELSE pc' = "done" /\ result' = e

\* BodyReturns with the teardown left out once the caller's context is cancelled.
BodyReturnsUnlessCancelled(e) ==
    /\ primary' = e
    /\ IF ephemeral /\ ~cancelled
       THEN pc' = "teardown" /\ UNCHANGED result
       ELSE pc' = "done" /\ result' = e

\* The body of runRun returns e: the deferred teardown runs when the machine
\* is ephemeral (lines 125-151).
BodyReturns(e) ==
    /\ primary' = e
    /\ IF ephemeral
       THEN pc' = "teardown" /\ UNCHANGED result
       ELSE pc' = "done" /\ result' = e

\* runRun, lines 153-156.
BringUpAgent ==
    /\ UNCHANGED cancelled
    /\ pc = "BringUpAgent"
    /\ \E e \in Outcomes(AgentErrors) :
         /\ trace' = trace \o <<Call("ssh.BringUpAgent", "", "", "caller", "", e)>>
         /\ IF e = Nil
            THEN pc' = "Connect" /\ UNCHANGED <<result, primary>>
            ELSE BodyReturns(e)
    /\ UNCHANGED <<rollingVars, cmdVars, flagSelect, flagMachine, machine, ephemeral, listed,
                   launched, waitErr>>

\* runRun, lines 158-168.
Connect ==
    /\ UNCHANGED cancelled
    /\ pc = "Connect"
    /\ \E e \in Outcomes(ConnectErrors) :
         /\ trace' = trace \o <<Call("ssh.Connect", machine.ID, "", "caller", "", e)>>
         /\ IF e = Nil
            THEN pc' = "Console" /\ UNCHANGED <<result, primary>>
            ELSE BodyReturns(e)
    /\ UNCHANGED <<rollingVars, cmdVars, flagSelect, flagMachine, machine, ephemeral, listed,
                   launched, waitErr>>

\* runRun, line 170: the command runs on the machine.
Console ==
    /\ UNCHANGED cancelled
    /\ pc = "Console"
    /\ \E e \in Outcomes(ConsoleErrors) :
         /\ trace' = trace \o <<Call("ssh.Console", machine.ID, "", "caller", command, e)>>
         /\ BodyReturns(e)
    /\ UNCHANGED <<rollingVars, cmdVars, flagSelect, flagMachine, machine, ephemeral, listed,
                   launched, waitErr>>

\* runRun, lines 132-136: the stop request of the teardown.
StopCall(m, e) == Call("flaps.Stop", m.ID, "", "fresh", StopTimeout, e)

\* DeferredReturn with the teardown's error taking the place of a nil result.
DeferredReturnTeardownError(bodyResult, e) == IF bodyResult = Nil THEN e ELSE bodyResult

\* runRun has no named result: what it returns once the deferred teardown,
\* which ended with e, is over.
DeferredReturn(bodyResult, e) == bodyResult

\* runRun, lines 126-140: the deferred function up to the stop request.
TeardownStop ==
    /\ UNCHANGED cancelled
    /\ pc = "teardown"
    /\ \E e \in StopErrors \cup {Nil} :
         IF e # Nil
         THEN /\ trace' = trace
                    \o <<StopCall(machine, e),
                         Warn("Failed to stop ephemeral runner machine"),
                         Warn(ManualDestroyWarning)>>
              /\ result' = DeferredReturn(primary, e)
              /\ pc' = "done"
         ELSE /\ trace' = trace
                    \o <<StopCall(machine, e), Fprintf(machine.ID, "Waiting to be destroyed ...")>>
              /\ pc' = "teardownWait"
              /\ UNCHANGED result
    /\ UNCHANGED <<rollingVars, cmdVars, runVars>>

\* runRun, lines 142-149: the wait for `destroyed`.
TeardownWait ==
    /\ UNCHANGED cancelled
    /\ pc = "teardownWait"
    /\ \E e \in DestroyWaitErrors \cup {Nil} :
         /\ trace' = trace
               \o <<Call("flaps.Wait", machine.ID, "", "fresh", <<"destroyed", StopTimeout>>, e)>>
               \o (IF e # Nil
                   THEN <<Fprintf(machine.ID, "failed"),
                          Warn("Failed to wait for ephemeral runner machine to be destroyed"),
                          Warn(ManualDestroyWarning)>>
                   ELSE <<Fprintf(machine.ID, "done")>>)
         /\ result' = DeferredReturn(primary, e)
    /\ pc' = "done"
    /\ UNCHANGED <<rollingVars, cmdVars, runVars>>

NextRun ==
    \/ Cancel
    \/ GetAppCompact
    \/ FlapsNew
    \/ FromRemoteApp
    \/ ValidateForMachinesPlatform
    \/ PromptList
    \/ PromptSelect
    \/ GetMachineByID
    \/ GetAppCurrentReleaseMachines
    \/ MakeEphemeralLaunch
    \/ MakeEphemeralWait
    \/ CheckMachineDestruction
    \/ BringUpAgent
    \/ Connect
    \/ Console
    \/ TeardownStop
    \/ TeardownWait

SpecRun == InitRun /\ [][NextRun]_vars

-----------------------------------------------------------------------------
(* Properties of RollingUpdate, checked under SpecRolling *)

\* The positions of the trace that hold a call op on machine id.
CallsOn(op, id) == {k \in DOMAIN trace : trace[k].op = op /\ trace[k].id = id}

UpdateFailed == \E k \in DOMAIN trace : trace[k].op = "Update.return" /\ trace[k].err # Nil
UpdateSucceeded == \E k \in DOMAIN trace : trace[k].op = "Update.return" /\ trace[k].err = Nil

\* C1: when RollingUpdate has returned, ReleaseLease was called exactly once
\* for every machine AcquireLeases returned, with the ID and the lease nonce
\* of that machine, whatever the Update of each machine came to.
C1_EveryLeaseReleasedOnce ==
    pc = "done" =>
        \A i \in DOMAIN machines :
              /\ Cardinality(CallsOn("ReleaseLease", machines[i].ID)) = 1
              /\ \A k \in CallsOn("ReleaseLease", machines[i].ID) :
                    trace[k].nonce = machines[i].LeaseNonce

\* A rolling update of two machines or more has returned, one Update having
\* failed and one having succeeded.
C1_Witness ==
    /\ pc = "done"
    /\ Len(machines) >= 2
    /\ UpdateFailed
    /\ UpdateSucceeded
    /\ \E k \in DOMAIN trace : trace[k].op = "ReleaseLease"

\* C2: when the Update of a machine failed, RollingUpdate returns an error.
C2_FailureSurfaced ==
    (pc = "done" /\ UpdateFailed) => result # Nil

\* The entries and returns of Update, in the order they happened.
UpdateEvents == SelectOps(trace, {"Update.enter", "Update.return"})

\* C3: Update is entered once for every machine, in list order, each entry
\* after the return of the Update before it, and a failed Update does not
\* keep the later ones from running: the entries and returns of Update are
\* at any time a prefix of enter m1, return m1, enter m2, return m2, ..., and
\* the whole of it when RollingUpdate has returned.
C3_UpdatesInOrderOneAtATime ==
    /\ Len(UpdateEvents) <= 2 * Len(machines)
    /\ \A k \in DOMAIN UpdateEvents :
          /\ UpdateEvents[k].op = (IF k % 2 = 1 THEN "Update.enter" ELSE "Update.return")
          /\ UpdateEvents[k].id = machines[(k + 1) \div 2].ID
    /\ (pc = "done" /\ result = Nil) => Len(UpdateEvents) = 2 * Len(machines)

\* The Update of the second machine failed and the Update of the third ran.
C3_Witness ==
    /\ pc = "done"
    /\ Len(machines) >= 3
    /\ \E k \in CallsOn("Update.return", machines[2].ID) : trace[k].err # Nil
    /\ CallsOn("Update.enter", machines[3].ID) # {}

-----------------------------------------------------------------------------
(* Properties of the run command, checked under SpecRun *)

\* C4: every mutating platform call, the config push of Update and the stop
\* request of the teardown, carries a non-empty nonce, the one of a lease
\* acquired before the call on the machine the call is on.
C4_MutationsCarryLeaseNonce ==
    \A k \in DOMAIN trace :
        trace[k].op \in {"flaps.Update", "flaps.Stop"} =>
            /\ trace[k].nonce # ""
            /\ \E j \in 1..(k - 1) :
                  /\ trace[j].op = "AcquireLease"
                  /\ trace[j].err = Nil
                  /\ trace[j].id = trace[k].id
                  /\ trace[j].nonce = trace[k].nonce

LaunchSucceeded == launched # NoMachine

\* The launched machine was seen in one of the states: by the look at it
\* after the failed wait for `started`, or by the wait for `destroyed`.
ObservedIn(states) ==
    \E k \in DOMAIN trace :
        /\ trace[k].id = launched.ID
        /\ trace[k].err = Nil
        /\ \/ trace[k].op = "flaps.Get" /\ trace[k].arg.State \in states
           \/ trace[k].op = "flaps.Wait" /\ trace[k].arg[1] = "destroyed" /\ "destroyed" \in states

\* The operator was told that the machine may have to be destroyed by hand.
ManualCleanupWarned ==
    \E k \in DOMAIN trace :
        /\ trace[k].op = "warn"
        /\ trace[k].arg \in {ManualDestroyWarning,
                             "You may need to destroy the machine manually (fly machine destroy)."}

\* C5 as claimed: when runRun has returned after a successful launch, the
\* machine was observed in the destroyed state or the operator was warned.
C5_DestroyedOrWarned ==
    (pc = "done" /\ LaunchSucceeded) => (ObservedIn({"destroyed"}) \/ ManualCleanupWarned)

\* C5, amended: when runRun has returned after a successful launch, on every
\* exit path, the machine was observed destroyed or destroying, or the
\* operator was warned that it may have to be destroyed by hand.
C5_DestroyedOrDestroyingOrWarned ==
    (pc = "done" /\ LaunchSucceeded) =>
        (ObservedIn({"destroyed", "destroying"}) \/ ManualCleanupWarned)

\* The wait for `started` failed, the machine was found destroying, and no
\* warning was made.
C5_Witness ==
    /\ pc = "done"
    /\ LaunchSucceeded
    /\ ObservedIn({"destroying"})
    /\ ~ManualCleanupWarned

StopCalls == {k \in DOMAIN trace : trace[k].op = "flaps.Stop"}
DestroyWaits ==
    {k \in DOMAIN trace : trace[k].op = "flaps.Wait" /\ trace[k].arg[1] = "destroyed"}
WarnedAfter(k) ==
    \E j \in (k + 1)..Len(trace) : trace[j].op = "warn" /\ trace[j].arg = ManualDestroyWarning

\* C6: runRun returns what its body (agent, connect, console) returned,
\* whether the stop request and the wait for `destroyed` fail or not; a
\* failed stop and a failed wait are each followed by the warning that
\* advises manual cleanup; the wait for `destroyed` comes only after a
\* successful stop of the same machine.
C6_TeardownKeepsResult ==
    /\ (pc = "done" /\ primary # NotReturned) => result = primary
    /\ \A k \in StopCalls \cup DestroyWaits : trace[k].err # Nil => WarnedAfter(k)
    /\ \A k \in DestroyWaits :
          \E j \in 1..(k - 1) :
              /\ trace[j].op = "flaps.Stop"
              /\ trace[j].err = Nil
              /\ trace[j].id = trace[k].id

\* The command succeeded on an ephemeral machine whose stop failed.
C6_Witness ==
    /\ pc = "done"
    /\ ephemeral
    /\ primary = Nil
    /\ \E k \in StopCalls : trace[k].err # Nil

ExplicitMachine == ~flagSelect /\ flagMachine # ""
ConsoleRan == \E k \in DOMAIN trace : trace[k].op = "ssh.Console"

\* C7: a stop request is only ever made for the machine this invocation
\* launched, so never for a machine given by -m or picked from the list; a
\* machine given by -m that is not started, or is a release-command machine,
\* makes runRun return an error without running the command.
C7_OnlyOwnMachineStopped ==
    /\ \A k \in StopCalls :
          /\ LaunchSucceeded
          /\ trace[k].id = launched.ID
          /\ \E j \in 1..(k - 1) :
                trace[j].op = "flaps.Launch" /\ trace[j].err = Nil /\ trace[j].id = trace[k].id
    /\ (machine # NoMachine /\ machine # launched) => StopCalls = {}
    /\ ExplicitMachine =>
          \A k \in DOMAIN trace :
              (/\ trace[k].op = "flaps.Get"
               /\ trace[k].err = Nil
               /\ (trace[k].arg.State # "started" \/ trace[k].arg.ReleaseCommand))
              => (pc = "done" /\ result \notin {Nil, NotReturned} /\ ~ConsoleRan)

\* The command ran on a machine given by -m and runRun has returned.
C7_Witness ==
    /\ pc = "done"
    /\ ExplicitMachine
    /\ machine.ID = flagMachine
    /\ ConsoleRan
    /\ result = Nil

\* The wait for `started` failed with an error of one of the HTTP statuses.
StartWaitFailedWith(statuses) ==
    \E k \in DOMAIN trace :
        /\ trace[k].op = "flaps.Wait"
        /\ trace[k].arg[1] = "started"
        /\ trace[k].err # Nil
        /\ trace[k].err.status \in statuses

\* The look at the launched machine after the failed wait.
Fetches == {k \in DOMAIN trace : trace[k].op = "flaps.Get" /\ trace[k].id = launched.ID}

\* The first event of type "exit" of the log carries exit code c.
FirstExitHasCode(events, c) ==
    \E i \in DOMAIN events :
        /\ events[i].Type = "exit"
        /\ \A j \in 1..(i - 1) : events[j].Type # "exit"
        /\ events[i].Request.kind = "exit code"
        /\ events[i].Request.code = c

\* When the wait for `started` failed with one of the statuses: the machine
\* was fetched, and a machine found destroyed or destroying whose exit event
\* carries exit code c makes the error "machine exited unexpectedly with code c".
ReportsExitCodeAfter(statuses) ==
    (pc = "done" /\ LaunchSucceeded /\ StartWaitFailedWith(statuses)) =>
        /\ Fetches # {}
        /\ \A k \in Fetches, c \in ExitCodes :
              (/\ trace[k].err = Nil
               /\ trace[k].arg.State \in {"destroyed", "destroying"}
               /\ FirstExitHasCode(trace[k].arg.Events, c))
              => result.msg = "machine exited unexpectedly with code " \o ToString(c)

\* C8: after a wait for `started` that timed out (HTTP status 408, or the
\* deadline of the context), the machine is fetched, and when it is found
\* destroyed or destroying and the first exit event of its log carries exit
\* code c, the error returned is "machine exited unexpectedly with code c".
C8_ExitCodeReportedAfterTimeout == ReportsExitCodeAfter({408, 0})

-----------------------------------------------------------------------------
(* Properties of selectCommand and quote, checked under SpecEncode *)

\* A space and quote(arg) for every argument from the i-th on.
RECURSIVE QuotedFrom(_)
QuotedFrom(i) ==
    IF i > Len(args) THEN <<>> ELSE <<" ">> \o quote(args[i]) \o QuotedFrom(i + 1)

\* C9: the encoded command is the base command, the alias's command as it is
\* when args[0] names an alias and quote(args[0]) otherwise, followed by a
\* space and quote(arg) for every later argument, in order; the aliases
\* {"deploy": "./deploy.sh --prod"} and the arguments ["deploy", "extra arg"]
\* give ./deploy.sh --prod 'extra arg'.
C9_EncodedCommand ==
    pc = "done" =>
        /\ command = (IF args[1] \in DOMAIN aliases THEN aliases[args[1]] ELSE quote(args[1]))
                        \o QuotedFrom(2)
        /\ (args = ExampleArgs /\ aliases = ExampleAliases) =>
              command = <<".", "/", "d", "e", "p", "l", "o", "y", ".", "s", "h", " ", "-", "-", "p", "r", "o", "d", " ", "'", "e", "x", "t", "r", "a", " ", "a", "r", "g", "'">>

\* The example was encoded.
C9_Witness ==
    /\ pc = "done"
    /\ args = ExampleArgs
    /\ aliases = ExampleAliases
    /\ command = <<".", "/", "d", "e", "p", "l", "o", "y", ".", "s", "h", " ", "-", "-", "p", "r", "o", "d", " ", "'", "e", "x", "t", "r", "a", " ", "a", "r", "g", "'">>

\* The arguments quote was applied to: every argument but an alias name.
QuotedArgs == {i \in DOMAIN args : i > 1 \/ args[1] \notin DOMAIN aliases}

\* C10: quote(s) of a string s without a single quote, the empty string
\* among them, is s between one pair of single quotes.
C10_PlainStringWrappedOnce ==
    pc = "done" =>
        \A i \in QuotedArgs :
            (\A j \in DOMAIN args[i] : args[i][j] # "'") =>
                cmdArgs[i] = <<"'">> \o args[i] \o <<"'">>

\* The characters of s from the i-th on, written one at a time: a single
\* quote closes the run that is open and is written as \' ; any other
\* character opens a run unless one is open; the end closes an open run.
RECURSIVE RunsAndQuotes(_, _, _)
RunsAndQuotes(s, i, open) ==
    IF i > Len(s) THEN (IF open THEN <<"'">> ELSE <<>>)
    ELSE IF s[i] = "'"
    THEN (IF open THEN <<"'">> ELSE <<>>) \o <<"\\", "'">> \o RunsAndQuotes(s, i + 1, FALSE)
    ELSE (IF open THEN <<>> ELSE <<"'">>) \o <<s[i]>> \o RunsAndQuotes(s, i + 1, TRUE)

QuotedBash == <<"\\", "'", "'", "b", "a", "s", "h", "'", "\\", "'">>
QuotedMultiple == <<"\\", "'", "'", "m", "u", "l", "t", "i", "p", "l", "e", "'", "\\", "'", "'", " ", "'", "\\", "'", "'", "s", "i", "n", "g", "l", "e", " ", "q", "u", "o", "t", "e", "s", "'", "\\", "'">>

\* C11: quote(s) of a string s with at least one single quote is, from left
\* to right, \' for every single quote and every maximal non-empty run of
\* other characters between one pair of single quotes; an empty run writes
\* nothing.  'bash' gives \''bash'\' and 'multiple' 'single quotes' gives
\* \''multiple'\'' '\''single quotes'\' .
C11_QuotesEscapedRunsWrapped ==
    pc = "done" =>
        /\ \A i \in QuotedArgs :
              (\E j \in DOMAIN args[i] : args[i][j] = "'") =>
                  cmdArgs[i] = RunsAndQuotes(args[i], 1, FALSE)
        /\ (1 \in QuotedArgs /\ args[1] = <<"'", "b", "a", "s", "h", "'">>) => cmdArgs[1] = QuotedBash
        /\ (1 \in QuotedArgs /\ args[1] = <<"'", "m", "u", "l", "t", "i", "p", "l", "e", "'", " ", "'", "s", "i", "n", "g", "l", "e", " ", "q", "u", "o", "t", "e", "s", "'">>) => cmdArgs[1] = QuotedMultiple

\* The string with two empty runs, one at each end, and one between two
\* quotes was encoded.
C11_Witness ==
    /\ pc = "done"
    /\ aliases = NoAliases
    /\ args = <<<<"'", "m", "u", "l", "t", "i", "p", "l", "e", "'", " ", "'", "s", "i", "n", "g", "l", "e", " ", "q", "u", "o", "t", "e", "s", "'">>>>
    /\ cmdArgs = <<QuotedMultiple>>

\* The words a POSIX shell splits s into, from the i-th character on: cur
\* is the word read so far, inWord says one was begun, inQuote that a single
\* quote is open.  Outside quotes a space ends the word, a backslash takes
\* the next character as it is and a single quote opens a quoted part; in a
\* quoted part every character up to the closing quote is taken as it is.
RECURSIVE ShellWords(_, _, _, _, _)
ShellWords(s, i, cur, inWord, inQuote) ==
    IF i > Len(s) THEN (IF inWord THEN <<cur>> ELSE <<>>)
    ELSE IF inQuote
    THEN (IF s[i] = "'"
          THEN ShellWords(s, i + 1, cur, TRUE, FALSE)
          ELSE ShellWords(s, i + 1, cur \o <<s[i]>>, TRUE, TRUE))
    ELSE IF s[i] = " "
    THEN (IF inWord THEN <<cur>> ELSE <<>>) \o ShellWords(s, i + 1, <<>>, FALSE, FALSE)
    ELSE IF s[i] = "'"
    THEN ShellWords(s, i + 1, cur, TRUE, TRUE)
    ELSE IF s[i] = "\\" /\ i < Len(s)
    THEN ShellWords(s, i + 2, cur \o <<s[i + 1]>>, TRUE, FALSE)
    ELSE ShellWords(s, i + 1, cur \o <<s[i]>>, TRUE, FALSE)

ShellSplit(s) == ShellWords(s, 1, <<>>, FALSE, FALSE)

\* C12: when args[0] is not an alias, a POSIX shell splits the output of
\* selectCommand into exactly args: every token, the empty ones and those
\* with spaces or single quotes among them, comes back as it was.
C12_RoundTrip ==
    (pc = "done" /\ args[1] \notin DOMAIN aliases) => ShellSplit(command) = args

-----------------------------------------------------------------------------
(* Properties of RollingUpdate and Update under cancellation and failure,  *)
(* checked under SpecRolling                                               *)

\* The positions of the ReleaseLease calls RollingUpdate deferred for machine id.
ReleasesOf(id) ==
    {k \in DOMAIN trace : trace[k].op = "ReleaseLease" /\ trace[k].id = id}

\* C13: cancellation of the caller does not skip the release of the leases:
\* when RollingUpdate ends with its context cancelled, a ReleaseLease was
\* issued for every machine it holds a lease on, each under a fresh deadline
\* of its own and not under the caller's cancelled context.
C13_ReleaseUnderFreshDeadline ==
    (pc = "done" /\ cancelled) =>
        \A i \in DOMAIN machines :
            /\ ReleasesOf(machines[i].ID) # {}
            /\ \A k \in ReleasesOf(machines[i].ID) : trace[k].ctx = "fresh"

-----------------------------------------------------------------------------
(* Properties of runRun under cancellation, checked under SpecRun *)

\* C14: cancellation of the caller does not skip the teardown of the
\* ephemeral machine: when runRun ends with the caller's context cancelled,
\* the stop request for the machine was issued and, the stop accepted, the
\* wait for `destroyed` as well, both under the one fresh context with a
\* deadline of 5 seconds and neither under the caller's context.
C14_TeardownNotSkippedByCancellation ==
    (pc = "done" /\ ephemeral /\ cancelled) =>
        /\ \E k \in StopCalls :
              /\ trace[k].id = machine.ID
              /\ trace[k].arg = 5
        /\ \A k \in StopCalls :
              trace[k].err = Nil =>
                  \E j \in DestroyWaits :
                      /\ j > k
                      /\ trace[j].id = trace[k].id
                      /\ trace[j].arg = <<"destroyed", 5>>
        /\ \A k \in StopCalls \cup DestroyWaits : trace[k].ctx = "fresh"

\* The command was cut short by the cancellation of the caller, and the
\* ephemeral machine was stopped and seen destroyed all the same.
C14_Witness ==
    /\ pc = "done"
    /\ ephemeral
    /\ cancelled
    /\ result = CtxCanceled
    /\ \E k \in DOMAIN trace : trace[k].op = "ssh.Console" /\ trace[k].err = CtxCanceled
    /\ \E k \in StopCalls : trace[k].err = Nil
    /\ \E k \in DestroyWaits : trace[k].err = Nil

-----------------------------------------------------------------------------
(* Properties of the order of the steps of RollingUpdate and Update,       *)
(* checked under SpecRolling                                               *)

\* The positions of the calls of the given operations.
CallsOf(ops) == {k \in DOMAIN trace : trace[k].op \in ops}

\* The positions where the acquisition of a lease failed.
FailedAcquisitions == {k \in CallsOf({"AcquireLease"}) : trace[k].err # Nil}

\* C15: no machine is mutated before the leases of all machines of the app
\* are held: every config push comes after a successful AcquireLease for
\* every machine and after the last AcquireLease; when the acquisition of a
\* lease fails, RollingUpdate returns that error and there is no config
\* push, no wait and no health check on any machine.
C15_LeasesBeforeMutation ==
    /\ \A k \in CallsOf({"flaps.Update"}) :
          /\ \A i \in DOMAIN app :
                \E j \in 1..(k - 1) :
                    /\ trace[j].op = "AcquireLease"
                    /\ trace[j].id = app[i].ID
                    /\ trace[j].err = Nil
          /\ \A j \in CallsOf({"AcquireLease"}) : j < k
    /\ \A k \in FailedAcquisitions :
          /\ CallsOf({"flaps.Update", "WaitForStartOrStop", "MachinesChecks"}) = {}
          /\ pc = "done" => result = trace[k].err

\* The lease of the second machine was refused after the first was granted.
C15_Witness ==
    /\ pc = "done"
    /\ result = Err("lease conflict", 409)
    /\ \E k \in FailedAcquisitions : trace[k].id = MachineID(2)
    /\ \E k \in CallsOf({"AcquireLease"}) : trace[k].id = MachineID(1) /\ trace[k].err = Nil

\* The k-th entry of the trace is a call of op.
At(k, op) == k \in DOMAIN trace /\ trace[k].op = op

\* The k-th entry of the trace is the message that the update succeeded.
SuccessMessageAt(k) == At(k, "print") /\ trace[k].arg = "updated successfully"

\* The k-th entry of the trace is what Update returned, an error.
ReturnsErrorAt(k) == At(k, "Update.return") /\ trace[k].err # Nil

\* C16: Update pushes the config, waits for the state, verifies the health,
\* in this order, and stops at the first step that fails.  Every Update
\* begins with one config push and has no other; a failed push is followed
\* at once by the return of an error, a failed wait by the return of the
\* error of the wait; a wait comes only right after a successful push, a
\* health verification only right after a successful wait, and the success
\* message only right after a successful health verification.
C16_StepsInOrderStopAtFirstFailure ==
    /\ \A k \in CallsOf({"Update.enter"}) :
          /\ At(k + 1, "print") /\ trace[k + 1].arg = "Updating machine"
          /\ At(k + 2, "flaps.Update") /\ trace[k + 2].id = trace[k].id
    /\ \A k \in CallsOf({"flaps.Update"}) :
          /\ At(k - 2, "Update.enter")
          /\ trace[k].err # Nil => ReturnsErrorAt(k + 1)
          /\ (trace[k].err = Nil /\ k < Len(trace)) => At(k + 1, "WaitForStartOrStop")
    /\ \A k \in CallsOf({"WaitForStartOrStop"}) :
          /\ At(k - 1, "flaps.Update") /\ trace[k - 1].err = Nil
          /\ trace[k].err # Nil => (ReturnsErrorAt(k + 1) /\ trace[k + 1].err = trace[k].err)
          /\ (trace[k].err = Nil /\ k < Len(trace)) => At(k + 1, "MachinesChecks")
    /\ \A k \in CallsOf({"MachinesChecks"}) :
          /\ At(k - 1, "WaitForStartOrStop") /\ trace[k - 1].err = Nil
          /\ trace[k].err # Nil => ReturnsErrorAt(k + 1)
          /\ trace[k].err = Nil => SuccessMessageAt(k + 1)
    /\ \A k \in DOMAIN trace :
          SuccessMessageAt(k) =>
              /\ At(k - 1, "MachinesChecks") /\ trace[k - 1].err = Nil
              /\ At(k + 1, "Update.return") /\ trace[k + 1].err = Nil

\* One rolling update in which an Update failed at the push, one at the
\* wait, and one went through all three steps.
C16_Witness ==
    /\ pc = "done"
    /\ \E k \in CallsOf({"flaps.Update"}) : trace[k].err # Nil
    /\ \E k \in CallsOf({"WaitForStartOrStop"}) : trace[k].err # Nil
    /\ \E k \in DOMAIN trace : SuccessMessageAt(k)

\* The machine of the app with the given ID.
AppMachine(id) == CHOOSE m \in {app[i] : i \in DOMAIN app} : m.ID = id

\* C17: after a successful config push Update waits, on the machine it just
\* pushed to, for the state that fits the machine: stop exactly when the
\* machine has a non-empty schedule, start otherwise, with a ceiling of
\* 5 minutes (300 seconds).
C17_WaitsForStateOfSchedule ==
    \A k \in CallsOf({"WaitForStartOrStop"}) :
        /\ At(k - 1, "flaps.Update")
        /\ trace[k - 1].err = Nil
        /\ trace[k - 1].id = trace[k].id
        /\ trace[k].arg[1] \in {"start", "stop"}
        /\ trace[k].arg[1] = "stop" <=> AppMachine(trace[k].id).Schedule # ""
        /\ trace[k].arg[2] = 5 * 60

\* One rolling update waited for a scheduled machine to stop and for a
\* machine without schedule to start.
C17_Witness ==
    /\ pc = "done"
    /\ \E k \in CallsOf({"WaitForStartOrStop"}) :
          trace[k].arg[1] = "stop" /\ AppMachine(trace[k].id).Schedule = "hourly"
    /\ \E k \in CallsOf({"WaitForStartOrStop"}) :
          trace[k].arg[1] = "start" /\ AppMachine(trace[k].id).Schedule = ""

\* The positions where the health verification of a machine failed.
FailedChecks == {k \in CallsOf({"MachinesChecks"}) : trace[k].err # Nil}

\* C18: a failed health verification makes Update return an error, the
\* failure wrapped, and is not followed by a rollback: no config push and no
\* other mutating call on that machine comes after it.
C18_HealthFailureReportedNoRollback ==
    \A k \in FailedChecks :
        /\ At(k + 1, "Update.return")
        /\ trace[k + 1].id = trace[k].id
        /\ trace[k + 1].err = Wrap("failed to wait for health checks to pass: ", trace[k].err)
        /\ \A j \in (k + 1)..Len(trace) :
              trace[j].id = trace[k].id =>
                  trace[j].op \notin {"flaps.Update", "flaps.Stop", "flaps.Launch", "flaps.Destroy"}

\* The health verification of the first of two machines failed, and the
\* rolling update went on to the second machine and to its end.
C18_Witness ==
    /\ pc = "done"
    /\ \E k \in FailedChecks :
          /\ trace[k].id = MachineID(1)
          /\ trace[k].err = Err("health checks failed", 0)
    /\ \E k \in CallsOf({"flaps.Update"}) : trace[k].id = MachineID(2)

-----------------------------------------------------------------------------
(* Properties of checkMachineDestruction and promptForMachine, checked     *)
(* under SpecRun                                                           *)

\* The exit events of a log, as positions; the log has the most recent
\* event first.
ExitEventsOf(events) == {i \in DOMAIN events : events[i].Type = "exit"}

\* What the claim has checkMachineDestruction report for a machine m found
\* destroyed or destroying.
ClaimedDestructionMessage(m) ==
    IF ExitEventsOf(m.Events) = {}
    THEN "machine was destroyed unexpectedly"
    ELSE LET i == CHOOSE x \in ExitEventsOf(m.Events) : \A y \in ExitEventsOf(m.Events) : x <= y
         IN  IF m.Events[i].Request.kind = "exit code"
             THEN "machine exited unexpectedly with code " \o ToString(m.Events[i].Request.code)
             ELSE "machine exited unexpectedly"

\* C19: checkMachineDestruction, for a machine found destroyed or
\* destroying, reports on the most recent exit event of its log: "destroyed
\* unexpectedly" without one, "exited unexpectedly" for one whose exit code
\* cannot be obtained (no payload, or no code to parse in it), "exited
\* unexpectedly with code c" for one with code c; for a machine in any other
\* state it reports that the machine is not destroyed, so that the warning
\* follows, and returns the error of the wait as it was.
C19_DestructionReport ==
    pc = "done" =>
        \A k \in Fetches :
            trace[k].err = Nil =>
                IF trace[k].arg.State \in {"destroyed", "destroying"}
                THEN result = Err(ClaimedDestructionMessage(trace[k].arg), 0)
                ELSE result = waitErr /\ At(k + 1, "warn")

\* The positions where the platform answered with the list of the machines,
\* and where the operator made a choice.
Listings == {k \in CallsOf({"flaps.ListActive"}) : trace[k].err = Nil}
Choices == {k \in CallsOf({"prompt.Select"}) : trace[k].err = Nil}

\* The machines of a list that are started and not release-command
\* machines, in the order of the list.
StartedNonRelease(f) ==
    SelectSeq(f, LAMBDA m : m.State = "started" /\ m.ReleaseCommand = FALSE)

\* The positions of the calls selectMachine makes to the platform and to the
\* operator.
SelectionCalls ==
    CallsOf({"flaps.ListActive", "prompt.Select", "flaps.Get",
             "GetAppCurrentReleaseMachines", "flaps.Launch", "flaps.Wait"})

\* The setup of runRun came to its end, so that selectMachine was called.
SetUp == \E k \in CallsOf({"ValidateForMachinesPlatform"}) : trace[k].err = Nil

\* The command has a machine to run on.
HasMachine == pc \in {"BringUpAgent", "Connect", "Console", "teardown", "teardownWait"}

\* C20: with -s and without -m, the operator is offered, for every list the
\* platform answers with, the option to create an ephemeral machine followed
\* by exactly the started machines of the list that are not release-command
\* machines, an empty selection included; the first option leads to the
\* launch of an ephemeral machine, which is marked for teardown, and entry i
\* to the i-th machine offered, not marked for teardown.  With -s and -m
\* selectMachine is left with an error without a call to the platform or to
\* the operator, and with neither the machine is always a freshly launched
\* ephemeral one.
C20_SelectionPolicy ==
    /\ (flagSelect /\ flagMachine = "") =>
          /\ \A k \in Listings :
                /\ pc # "done" \/ k < Len(trace)
                /\ k < Len(trace) =>
                      /\ At(k + 1, "prompt.Select")
                      /\ Len(trace[k + 1].arg) = 1 + Len(StartedNonRelease(trace[k].arg))
                      /\ \A i \in DOMAIN StartedNonRelease(trace[k].arg) :
                            trace[k + 1].arg[i + 1] = StartedNonRelease(trace[k].arg)[i].ID
          /\ \A k \in Choices :
                k = Len(trace) =>
                    \/ pc = "makeEphemeralRunnerMachine" /\ machine = NoMachine
                    \/ /\ pc = "BringUpAgent"
                       /\ ~ephemeral
                       /\ \E i \in DOMAIN listed :
                             machine = listed[i] /\ trace[k].arg[i + 1] = machine.ID
          /\ ephemeral =>
                (machine.ID = EphemeralID /\ \E k \in CallsOf({"flaps.Launch"}) : trace[k].err = Nil)
    /\ (flagSelect /\ flagMachine # "") =>
          /\ SelectionCalls = {}
          /\ ~HasMachine
          /\ (pc = "done" /\ SetUp) =>
                result = Err("-m/--machine can't be used with -s/--select", 0)
    /\ (~flagSelect /\ flagMachine = "") =>
          /\ CallsOf({"flaps.ListActive", "prompt.Select", "flaps.Get"}) \subseteq Fetches
          /\ HasMachine =>
                /\ ephemeral
                /\ machine.ID = EphemeralID
                /\ \E k \in CallsOf({"flaps.Launch"}) : trace[k].err = Nil

====
